---- MODULE Spec2Model ----
(***************************************************************************)
(* A model of trade/plugins/daytrades.py (the Daytrade class and the       *)
(* fetch_daytrades container task) and of the Option.exercise transform.   *)
(*                                                                         *)
(* A batch (OperationContainer) holds an ordered list of operations and a  *)
(* positions mapping.  fetch_daytrades scans the list pairwise, and every  *)
(* qualifying pair is turned into a Daytrade that consumes the quantities  *)
(* of its two source operations in place and is inserted in, or merged     *)
(* into, positions['daytrades'][symbol].                                   *)
(*                                                                         *)
(* Prices are exact rationals [num, den] in lowest terms, so that the      *)
(* quantity-weighted average of a merge is computed and not assumed.       *)
(***************************************************************************)
EXTENDS Integers, Sequences, FiniteSets, TLC

VARIABLES
    operations,   \* container.operations: sequence of Operation records
    positions,    \* container.positions: category -> (symbol -> entity)
    pc,           \* "idle" | "scan" (inside fetch_daytrades) | "raised"
    i,            \* index of operation_a in the outer loop of fetch_daytrades
    j,            \* index of operation_b in the inner loop of fetch_daytrades
    passes,       \* number of fetch_daytrades calls that have returned
    initial,      \* the batch as the caller built it (history)
    log,          \* one record per Daytrade(...) construction (history): the
                  \* pair, the quantities of the batch before and after, the
                  \* new Daytrade, the entity held under its symbol before
                  \* and after
    ex_in,        \* arguments of a pending Option.exercise call
    ex_out,       \* the list returned by Option.exercise
    threads       \* SpecConc: for each thread inside fetch_daytrades, its
                  \* position and the locals of the Daytrade it is building

vars ==
    <<operations, positions, pc, i, j, passes, initial, log, ex_in, ex_out, threads>>

----------------------------------------------------------------------------
(* Bounds of the model *)

MaxOps == 2          \* operations in a batch of Spec
MaxWideOps == 4      \* operations in a batch of SpecWide
MaxPasses == 2       \* fetch_daytrades calls on the same container
MaxStrike == 12      \* strike prices 0..MaxStrike of SpecExercise
MaxConcOps == 2      \* operations in a batch of SpecConc

Symbols == {"A", "B"}
Dates == {1, 2}
Prices == {10, 12}
Quantities == {-150, -100, -50, 0, 50, 100, 150}
WideQuantities == {-100, -50, 50, 100}
ExerciseQuantities == {-100, -50, 0, 50, 100}
Kinds == {"call", "put"}

None == [none |-> TRUE]

\* a reference to the operation object at index `at` of the batch
Ref(at) == [none |-> FALSE, at |-> at]

----------------------------------------------------------------------------
(* Numbers *)

Abs(x) == IF x < 0 THEN -x ELSE x

Min(x, y) == IF x <= y THEN x ELSE y

RECURSIVE GCD(_, _)
GCD(a, b) == IF b = 0 THEN a ELSE GCD(b, a % b)

\* the rational n/d (d # 0) in lowest terms with a positive denominator
Rat(n, d) ==
    LET g == GCD(Abs(n), Abs(d))
        s == IF d < 0 THEN -1 ELSE 1
    IN  [num |-> (s * n) \div g, den |-> (s * d) \div g]

RatInt(n) == [num |-> n, den |-> 1]

RatScale(k, r) == Rat(k * r.num, r.den)

RatSub(r, s) == Rat(r.num * s.den - s.num * r.den, r.den * s.den)

RatAbs(r) == [num |-> Abs(r.num), den |-> r.den]

----------------------------------------------------------------------------
(* trade.Operation and trade.utils *)

Operation(date, symbol, quantity, price) ==
    [date |-> date, symbol |-> symbol, quantity |-> quantity, price |-> price]

real_value(operation) == RatScale(operation.quantity, operation.price)

same_sign(x, y) == (x >= 0) <=> (y >= 0)

\* (q1*p1 + q2*p2) / (q1 + q2); the division raises when q1 + q2 = 0
average_price(q1, p1, q2, p2) ==
    Rat(q1 * p1.num * p2.den + q2 * p2.num * p1.den, (q1 + q2) * p1.den * p2.den)

merge_operations(existing_operation, operation) ==
    IF existing_operation.quantity + operation.quantity = 0
    THEN [raised |-> TRUE, operation |-> existing_operation]
    ELSE [raised |-> FALSE,
          operation |->
            [existing_operation EXCEPT
                !.price = average_price(existing_operation.quantity,
                                        existing_operation.price,
                                        operation.quantity, operation.price),
                !.quantity = existing_operation.quantity + operation.quantity]]

----------------------------------------------------------------------------
(* trade/plugins/daytrades.py *)

\* the condition without the test of the signs
daytrade_condition_nosign(operation_a, operation_b) ==
    /\ operation_a.symbol = operation_b.symbol
    /\ operation_a.quantity # 0
    /\ operation_b.quantity # 0

\* the condition without the two tests for an empty operation
daytrade_condition_nozero(operation_a, operation_b) ==
    /\ operation_a.symbol = operation_b.symbol
    /\ ~same_sign(operation_a.quantity, operation_b.quantity)

daytrade_condition(operation_a, operation_b) ==
    /\ operation_a.symbol = operation_b.symbol
    /\ ~same_sign(operation_a.quantity, operation_b.quantity)
    /\ operation_a.quantity # 0
    /\ operation_b.quantity # 0

\* the assignment with the comparison the other way round
find_purchase_and_sale_reversed(ops, a, b) ==
    IF same_sign(ops[a].quantity, ops[b].quantity)
    THEN <<None, None>>
    ELSE IF ops[a].quantity < ops[b].quantity
         THEN <<Ref(a), Ref(b)>>
         ELSE <<Ref(b), Ref(a)>>

\* Operations are objects mutated in place: they are named by their index in
\* the batch `ops`.  Returns <<purchase, sale>>, or <<None, None>>.
find_purchase_and_sale(ops, a, b) ==
    IF same_sign(ops[a].quantity, ops[b].quantity)
    THEN <<None, None>>
    ELSE IF ops[a].quantity > ops[b].quantity
         THEN <<Ref(a), Ref(b)>>
         ELSE <<Ref(b), Ref(a)>>

\* the largest absolute quantity of the two
matched_quantity_max(ops, purchase, sale) ==
    IF Abs(ops[purchase].quantity) >= Abs(ops[sale].quantity)
    THEN Abs(ops[purchase].quantity)
    ELSE Abs(ops[sale].quantity)

\* self.quantity as extract_daytrade computes it, before its two updates
matched_quantity(ops, purchase, sale) ==
    Min(Abs(ops[purchase].quantity), Abs(ops[sale].quantity))

\* the extraction taking the largest absolute quantity
extract_daytrade_max(ops, purchase, sale) ==
    LET quantity == IF Abs(ops[purchase].quantity) >= Abs(ops[sale].quantity)
                    THEN Abs(ops[purchase].quantity)
                    ELSE Abs(ops[sale].quantity)
        ops1 == [ops EXCEPT ![purchase].quantity = @ - quantity]
        ops2 == [ops1 EXCEPT ![sale].quantity = @ + quantity]
    IN  [quantity |-> quantity, operations |-> ops2]

\* the extraction that leaves the source operations as they are
extract_daytrade_keep(ops, purchase, sale) ==
    [quantity |-> Min(Abs(ops[purchase].quantity), Abs(ops[sale].quantity)),
     operations |-> ops]

\* the extraction whose second update goes to the first operation of the batch
extract_daytrade_first(ops, purchase, sale) ==
    LET quantity == Min(Abs(ops[purchase].quantity), Abs(ops[sale].quantity))
        ops1 == [ops EXCEPT ![purchase].quantity = @ - quantity]
        ops2 == [ops1 EXCEPT ![1].quantity = @ + quantity]
    IN  [quantity |-> quantity, operations |-> ops2]

\* the extraction with the two updates the other way round
extract_daytrade_away(ops, purchase, sale) ==
    LET quantity == Min(Abs(ops[purchase].quantity), Abs(ops[sale].quantity))
        ops1 == [ops EXCEPT ![purchase].quantity = @ + quantity]
        ops2 == [ops1 EXCEPT ![sale].quantity = @ - quantity]
    IN  [quantity |-> quantity, operations |-> ops2]

\* the extraction that forgets to update the sale
extract_daytrade_purchase_only(ops, purchase, sale) ==
    LET quantity == Min(Abs(ops[purchase].quantity), Abs(ops[sale].quantity))
    IN  [quantity |-> quantity,
         operations |-> [ops EXCEPT ![purchase].quantity = @ - quantity]]

\* Sets self.quantity and updates the two source operations, in this order.
extract_daytrade(ops, purchase, sale) ==
    LET quantity == Min(Abs(ops[purchase].quantity), Abs(ops[sale].quantity))
        ops1 == [ops EXCEPT ![purchase].quantity = @ - quantity]
        ops2 == [ops1 EXCEPT ![sale].quantity = @ + quantity]
    IN  [quantity |-> quantity, operations |-> ops2]

\* the legs with a sale leg of positive quantity
Daytrade_operations_unsigned(purchase, sale, quantity) ==
    << Operation(purchase.date, purchase.symbol, quantity, purchase.price),
       Operation(sale.date, sale.symbol, quantity, sale.price) >>

\* self.operations of Daytrade.__init__: leg 1 is the purchase, leg 2 the sale
\* (operations[0] and operations[1] of the code).
Daytrade_operations(purchase, sale, quantity) ==
    << Operation(purchase.date, purchase.symbol, quantity, purchase.price),
       Operation(sale.date, sale.symbol, quantity * (-1), sale.price) >>

\* Daytrade.__init__(operation_a, operation_b) on the batch `ops`; `id` is the
\* identity of the new object.  A (None, None) from find_purchase_and_sale is
\* passed on to extract_daytrade, which raises on None.quantity before
\* anything is changed: `failed` names the step that raised.
\* The legs read the date and price of the source operations, which the
\* extraction leaves alone.
Daytrade(ops, a, b, id) ==
    LET ps == find_purchase_and_sale(ops, a, b)
    IN  IF ps[1] = None
        THEN [raised |-> TRUE, failed |-> "extract_daytrade",
              operations |-> ops, daytrade |-> None]
        ELSE LET ex == extract_daytrade(ops, ps[1].at, ps[2].at)
             IN  [raised |-> FALSE,
                  failed |-> "",
                  operations |-> ex.operations,
                  daytrade |->
                    [id |-> id,
                     date |-> ops[a].date,
                     symbol |-> ops[a].symbol,
                     quantity |-> ex.quantity,
                     operations |->
                        Daytrade_operations(ex.operations[ps[1].at],
                                            ex.operations[ps[2].at],
                                            ex.quantity)]]

\* the results with the two legs taken the other way round
results_swapped(daytrade) ==
    RatSub(RatAbs(real_value(daytrade.operations[1])),
           RatAbs(real_value(daytrade.operations[2])))

results(daytrade) ==
    RatSub(RatAbs(real_value(daytrade.operations[2])),
           RatAbs(real_value(daytrade.operations[1])))

\* positions['daytrades'], the empty mapping when the key is absent
daytrades(pos) ==
    IF "daytrades" \in DOMAIN pos THEN pos["daytrades"] ELSE [s \in {} |-> None]

\* the merge that stores the new Daytrade in place of the held one
merge_daytrade_replace(existing, self) == [raised |-> FALSE, daytrade |-> self]

\* the merge that leaves the sale leg of the held Daytrade unmerged
merge_daytrade_purchase_only(existing, self) ==
    LET m0 == merge_operations(existing.operations[1], self.operations[1])
    IN  [raised |-> m0.raised,
         daytrade |->
            IF m0.raised THEN existing
            ELSE [existing EXCEPT
                    !.operations[1] = m0.operation,
                    !.quantity = @ + self.quantity]]

\* the merge whose second call takes the purchase leg of `self` again
merge_daytrade_pasted(existing, self) ==
    LET m0 == merge_operations(existing.operations[1], self.operations[1])
        m1 == merge_operations(existing.operations[2], self.operations[1])
    IN  IF m0.raised
        THEN [raised |-> TRUE, daytrade |-> existing]
        ELSE IF m1.raised
        THEN [raised |-> TRUE,
              daytrade |-> [existing EXCEPT !.operations[1] = m0.operation]]
        ELSE [raised |-> FALSE,
              daytrade |->
                [existing EXCEPT
                    !.operations = <<m0.operation, m1.operation>>,
                    !.quantity = @ + self.quantity]]

\* The merge branch of append_to_container_positions: the daytrade `existing`
\* stored under the symbol is updated in place with the legs and the quantity
\* of `self`.  A raise in the second merge leaves the first leg merged.
merge_daytrade(existing, self) ==
    LET m0 == merge_operations(existing.operations[1], self.operations[1])
        m1 == merge_operations(existing.operations[2], self.operations[2])
    IN  IF m0.raised
        THEN [raised |-> TRUE, daytrade |-> existing]
        ELSE IF m1.raised
        THEN [raised |-> TRUE,
              daytrade |-> [existing EXCEPT !.operations[1] = m0.operation]]
        ELSE [raised |-> FALSE,
              daytrade |->
                [existing EXCEPT
                    !.operations = <<m0.operation, m1.operation>>,
                    !.quantity = @ + self.quantity]]

\* Daytrade.append_to_container_positions(container), on the positions mapping
append_to_container_positions(self, pos) ==
    LET held == daytrades(pos)
        symbol == self.symbol
        put == IF symbol \in DOMAIN held
               THEN merge_daytrade(held[symbol], self)
               ELSE [raised |-> FALSE, daytrade |-> self]
    IN  [raised |-> put.raised,
         positions |->
            [c \in DOMAIN pos \cup {"daytrades"} |->
                IF c = "daytrades"
                THEN [s \in DOMAIN held \cup {symbol} |->
                        IF s = symbol THEN put.daytrade ELSE held[s]]
                ELSE pos[c]]]

\* the quantities of a batch, and the entity held under a symbol (history)
Quantity(ops) == [k \in DOMAIN ops |-> ops[k].quantity]

Held(pos, symbol) ==
    IF symbol \in DOMAIN daytrades(pos) THEN daytrades(pos)[symbol] ELSE None

\* the scan that leaves a row after its first pair
NextPair_row(n, a, b) == <<a + 1, a + 1>>

\* the scan whose inner loop stops one operation early
NextPair_short(n, a, b) == IF b < n - 1 THEN <<a, b + 1>> ELSE <<a + 1, a + 1>>

\* The index pair visited after (a, b) by the two loops of fetch_daytrades
NextPair(n, a, b) == IF b < n THEN <<a, b + 1>> ELSE <<a + 1, a + 1>>

\* fetch_daytrades with the inner loop starting one past the outer index
\* (container.operations[i + 1:]), run to its end from the pair (a, b) on the
\* state st = [operations, positions, matches, raised]
RECURSIVE ScanSkippingSelf(_, _, _)
ScanSkippingSelf(st, a, b) ==
    IF st.raised \/ a > Len(st.operations) THEN st
    ELSE IF b > Len(st.operations) THEN ScanSkippingSelf(st, a + 1, a + 2)
    ELSE IF daytrade_condition(st.operations[a], st.operations[b])
    THEN LET made == Daytrade(st.operations, a, b, Len(st.matches) + 1)
             put == IF made.raised
                    THEN [raised |-> TRUE, positions |-> st.positions]
                    ELSE append_to_container_positions(made.daytrade, st.positions)
         IN  ScanSkippingSelf([operations |-> made.operations,
                               positions |-> put.positions,
                               matches |-> Append(st.matches, <<a, b>>),
                               raised |-> put.raised], a, b + 1)
    ELSE ScanSkippingSelf(st, a, b + 1)

----------------------------------------------------------------------------
(* The batch under fetch_daytrades *)

OperationSet ==
    {Operation(d, s, q, RatInt(p)) : d \in Dates, s \in Symbols, q \in Quantities, p \in Prices}

Batches == UNION {[1..n -> OperationSet] : n \in 0..MaxOps}

Init ==
    /\ operations \in Batches
    /\ positions = [c \in {} |-> None]
    /\ pc = "idle"
    /\ i = 0
    /\ j = 0
    /\ passes = 0
    /\ initial = operations
    /\ log = <<>>
    /\ ex_in = None
    /\ ex_out = <<>>
    /\ threads = <<>>

\* fetch_daytrades(container) is called
Call ==
    /\ pc = "idle"
    /\ passes < MaxPasses
    /\ pc' = "scan"
    /\ i' = 1
    /\ j' = 1
    /\ UNCHANGED <<operations, positions, passes, initial, log, ex_in, ex_out, threads>>

\* One iteration of the inner loop: the test of the pair (i, j) and, when it
\* qualifies, the construction of the Daytrade and its insertion or merge.
InnerIteration ==
    /\ pc = "scan"
    /\ i <= Len(operations)
    /\ IF daytrade_condition(operations[i], operations[j])
       THEN LET made == Daytrade(operations, i, j, Len(log) + 1)
                put == IF made.raised
                       THEN [raised |-> TRUE, positions |-> positions]
                       ELSE append_to_container_positions(made.daytrade, positions)
                entry == [pass |-> passes + 1,
                          a |-> i,
                          b |-> j,
                          pair |-> find_purchase_and_sale(operations, i, j),
                          before |-> Quantity(operations),
                          after |-> Quantity(made.operations),
                          daytrade |-> made.daytrade,
                          held |-> Held(positions, operations[i].symbol),
                          stored |-> Held(put.positions, operations[i].symbol),
                          failed |-> made.failed,
                          raised |-> put.raised]
            IN  /\ operations' = made.operations
                /\ positions' = put.positions
                /\ log' = Append(log, entry)
                /\ IF put.raised
                   THEN /\ pc' = "raised"
                        /\ UNCHANGED <<i, j>>
                   ELSE /\ pc' = pc
                        /\ i' = NextPair(Len(operations), i, j)[1]
                        /\ j' = NextPair(Len(operations), i, j)[2]
       ELSE /\ i' = NextPair(Len(operations), i, j)[1]
            /\ j' = NextPair(Len(operations), i, j)[2]
            /\ UNCHANGED <<operations, positions, log, pc>>
    /\ UNCHANGED <<passes, initial, ex_in, ex_out, threads>>

\* fetch_daytrades returns once the outer loop is exhausted
Return ==
    /\ pc = "scan"
    /\ i > Len(operations)
    /\ pc' = "idle"
    /\ passes' = passes + 1
    /\ UNCHANGED <<operations, positions, i, j, initial, log, ex_in, ex_out, threads>>

Next == Call \/ InnerIteration \/ Return

Spec == Init /\ [][Next]_vars

\* Longer batches of fewer kinds of operation: one date, no empty operation,
\* and the two prices alternating along the batch.
WideBatches ==
    UNION {[1..n -> (Symbols \X WideQuantities)] : n \in 0..MaxWideOps}

InitWide ==
    /\ \E b \in WideBatches :
            operations =
                [k \in DOMAIN b |->
                    Operation(1, b[k][1], b[k][2],
                              RatInt(IF k % 2 = 1 THEN 10 ELSE 12))]
    /\ positions = [c \in {} |-> None]
    /\ pc = "idle"
    /\ i = 0
    /\ j = 0
    /\ passes = 0
    /\ initial = operations
    /\ log = <<>>
    /\ ex_in = None
    /\ ex_out = <<>>
    /\ threads = <<>>

SpecWide == InitWide /\ [][Next]_vars

\* fetch_daytrades called once on a batch of InitWide: the first call, its
\* iterations and its return
CallOnce ==
    /\ passes = 0
    /\ Call

NextOnePass == CallOnce \/ InnerIteration \/ Return

SpecOnePass == InitWide /\ [][NextOnePass]_vars

\* A caller that builds one Daytrade from any two operations of a batch of
\* two, without the test of fetch_daytrades, and appends it when it is built.
InitCtor ==
    /\ operations \in [1..2 -> OperationSet]
    /\ positions = [c \in {} |-> None]
    /\ pc = "idle"
    /\ i = 0
    /\ j = 0
    /\ passes = 0
    /\ initial = operations
    /\ log = <<>>
    /\ ex_in = None
    /\ ex_out = <<>>
    /\ threads = <<>>

Construct ==
    /\ pc = "idle"
    /\ log = <<>>
    /\ \E a, b \in DOMAIN operations :
        LET made == Daytrade(operations, a, b, 1)
            put == IF made.raised
                   THEN [raised |-> TRUE, positions |-> positions]
                   ELSE append_to_container_positions(made.daytrade, positions)
            entry == [pass |-> 0,
                      a |-> a,
                      b |-> b,
                      pair |-> find_purchase_and_sale(operations, a, b),
                      before |-> Quantity(operations),
                      after |-> Quantity(made.operations),
                      daytrade |-> made.daytrade,
                      held |-> Held(positions, operations[a].symbol),
                      stored |-> Held(put.positions, operations[a].symbol),
                      failed |-> made.failed,
                      raised |-> put.raised]
        IN  /\ operations' = made.operations
            /\ positions' = put.positions
            /\ log' = <<entry>>
            /\ pc' = IF put.raised THEN "raised" ELSE "idle"
            /\ i' = a
            /\ j' = b
    /\ UNCHANGED <<passes, initial, ex_in, ex_out, threads>>

NextCtor == Construct

SpecCtor == InitCtor /\ [][NextCtor]_vars

----------------------------------------------------------------------------
(* Two fetch_daytrades calls running at once on one container *)

\* Each thread runs the loops of fetch_daytrades.  Between the steps of one
\* thread the other may run: after the test of daytrade_condition ("check"),
\* after find_purchase_and_sale and the min of extract_daytrade ("compute"),
\* after `purchase.quantity -= self.quantity` ("purchase"), and after
\* `sale.quantity += self.quantity`, the construction of the legs and
\* append_to_container_positions ("sale").
Threads == {1, 2}

InitConc ==
    /\ \E b \in UNION {[1..n -> (Symbols \X WideQuantities)] : n \in 1..MaxConcOps} :
            operations =
                [k \in DOMAIN b |->
                    Operation(1, b[k][1], b[k][2],
                              RatInt(IF k % 2 = 1 THEN 10 ELSE 12))]
    /\ positions = [c \in {} |-> None]
    /\ pc = "idle"
    /\ i = 0
    /\ j = 0
    /\ passes = 0
    /\ initial = operations
    /\ log = <<>>
    /\ ex_in = None
    /\ ex_out = <<>>
    /\ threads = [t \in Threads |->
                    [pc |-> "check", i |-> 1, j |-> 1,
                     purchase |-> None, sale |-> None, quantity |-> 0,
                     wrote |-> {}]]

\* the test of line 178 on the pair (i, j) of thread t
TCheck(t) ==
    LET me == threads[t]
    IN  /\ me.pc = "check"
        /\ me.i <= Len(operations)
        /\ threads' =
            [threads EXCEPT ![t] =
                IF daytrade_condition(operations[me.i], operations[me.j])
                THEN [me EXCEPT !.pc = "compute"]
                ELSE [me EXCEPT
                        !.i = NextPair(Len(operations), me.i, me.j)[1],
                        !.j = NextPair(Len(operations), me.i, me.j)[2]]]
        /\ UNCHANGED <<operations, positions, pc, i, j, passes, initial, log,
                       ex_in, ex_out>>

\* lines 83 and 117: the purchase, the sale and self.quantity, from the
\* quantities as they are now; a (None, None) makes line 117 raise
TCompute(t) ==
    LET me == threads[t]
        ps == find_purchase_and_sale(operations, me.i, me.j)
    IN  /\ me.pc = "compute"
        /\ threads' =
            [threads EXCEPT ![t] =
                IF ps[1] = None
                THEN [me EXCEPT !.pc = "raised"]
                ELSE [me EXCEPT
                        !.pc = "purchase",
                        !.purchase = ps[1],
                        !.sale = ps[2],
                        !.quantity = matched_quantity(operations, ps[1].at, ps[2].at)]]
        /\ UNCHANGED <<operations, positions, pc, i, j, passes, initial, log,
                       ex_in, ex_out>>

\* line 126: purchase.quantity -= self.quantity
TPurchase(t) ==
    LET me == threads[t]
    IN  /\ me.pc = "purchase"
        /\ operations' =
            [operations EXCEPT ![me.purchase.at].quantity = @ - me.quantity]
        /\ threads' =
            [threads EXCEPT ![t] =
                [me EXCEPT !.pc = "sale", !.wrote = @ \cup {me.purchase.at}]]
        /\ UNCHANGED <<positions, pc, i, j, passes, initial, log, ex_in, ex_out>>

\* line 127: sale.quantity += self.quantity; then the legs of lines 87-100
\* and append_to_container_positions of line 180
TSale(t) ==
    LET me == threads[t]
        ops == [operations EXCEPT ![me.sale.at].quantity = @ + me.quantity]
        daytrade == [id |-> Len(log) + 1,
                     date |-> ops[me.i].date,
                     symbol |-> ops[me.i].symbol,
                     quantity |-> me.quantity,
                     operations |->
                        Daytrade_operations(ops[me.purchase.at], ops[me.sale.at],
                                            me.quantity)]
        put == append_to_container_positions(daytrade, positions)
        entry == [pass |-> t,
                  a |-> me.i,
                  b |-> me.j,
                  pair |-> <<me.purchase, me.sale>>,
                  before |-> Quantity(operations),
                  after |-> Quantity(ops),
                  daytrade |-> daytrade,
                  held |-> Held(positions, daytrade.symbol),
                  stored |-> Held(put.positions, daytrade.symbol),
                  failed |-> "",
                  raised |-> put.raised]
    IN  /\ me.pc = "sale"
        /\ operations' = ops
        /\ positions' = put.positions
        /\ log' = Append(log, entry)
        /\ threads' =
            [threads EXCEPT ![t] =
                IF put.raised
                THEN [me EXCEPT !.pc = "raised", !.wrote = @ \cup {me.sale.at}]
                ELSE [me EXCEPT
                        !.pc = "check",
                        !.wrote = @ \cup {me.sale.at},
                        !.i = NextPair(Len(operations), me.i, me.j)[1],
                        !.j = NextPair(Len(operations), me.i, me.j)[2]]]
        /\ UNCHANGED <<pc, i, j, passes, initial, ex_in, ex_out>>

\* the loops of thread t are exhausted: its fetch_daytrades returns
TReturn(t) ==
    LET me == threads[t]
    IN  /\ me.pc = "check"
        /\ me.i > Len(operations)
        /\ threads' = [threads EXCEPT ![t] = [me EXCEPT !.pc = "done"]]
        /\ UNCHANGED <<operations, positions, pc, i, j, passes, initial, log,
                       ex_in, ex_out>>

NextConc ==
    \E t \in Threads :
        TCheck(t) \/ TCompute(t) \/ TPurchase(t) \/ TSale(t) \/ TReturn(t)

SpecConc == InitConc /\ [][NextConc]_vars

----------------------------------------------------------------------------
(* Option.exercise *)

\* the exercise of a put taking the underlying asset the other way
exercise_put(kind, quantity, price) ==
    << [quantity |-> Abs(quantity) * (-1), price |-> 0],
       [quantity |-> IF kind = "put" THEN quantity * (-1) ELSE quantity,
        price |-> price] >>

\* Option.exercise(quantity, price): the operation that consumes the option
\* and the operation on the underlying asset, in this order.
exercise(kind, quantity, price) ==
    << [quantity |-> Abs(quantity) * (-1), price |-> 0],
       [quantity |-> quantity, price |-> price] >>

ExerciseInputs ==
    [kind : Kinds,
     quantity : ExerciseQuantities,
     price : 0..MaxStrike]

InitExercise ==
    /\ operations = <<>>
    /\ positions = [c \in {} |-> None]
    /\ pc = "idle"
    /\ i = 0
    /\ j = 0
    /\ passes = 0
    /\ initial = <<>>
    /\ log = <<>>
    /\ ex_in \in ExerciseInputs
    /\ ex_out = <<>>
    /\ threads = <<>>

Exercise ==
    /\ ex_in # None
    /\ ex_out = <<>>
    /\ ex_out' = exercise(ex_in.kind, ex_in.quantity, ex_in.price)
    /\ UNCHANGED <<operations, positions, pc, i, j, passes, initial, log, ex_in,
                   threads>>

NextExercise == Exercise

SpecExercise == InitExercise /\ [][NextExercise]_vars

----------------------------------------------------------------------------
(* Properties of the construction of a Daytrade *)

\* the entries of the log whose construction and insertion completed
Made == {k \in DOMAIN log : ~log[k].raised}

\* C1: a Daytrade built from two operations of the same instrument with
\* non-zero quantities of opposite signs, whichever of the two comes first,
\* has quantity min(|a.quantity|, |b.quantity|) > 0; the purchase side loses
\* that quantity, the sale side gains it, and afterwards one of the two is 0,
\* both exactly when the magnitudes were equal.
C1_ExtractedQuantity ==
    \A k \in DOMAIN log :
        LET m == log[k]
            qa == m.before[m.a]
            qb == m.before[m.b]
            p == IF qa > 0 THEN m.a ELSE m.b
            s == IF qa > 0 THEN m.b ELSE m.a
        IN  (initial[m.a].symbol = initial[m.b].symbol /\ qa * qb < 0) =>
                /\ m.daytrade # None
                /\ m.daytrade.quantity = Min(Abs(qa), Abs(qb))
                /\ m.daytrade.quantity > 0
                /\ m.after[p] = m.before[p] - m.daytrade.quantity
                /\ m.after[s] = m.before[s] + m.daytrade.quantity
                /\ (m.after[m.a] = 0 \/ m.after[m.b] = 0)
                /\ (m.after[m.a] = 0 /\ m.after[m.b] = 0) <=> (Abs(qa) = Abs(qb))

\* a pass that built one Daytrade with the sale as first argument, leaving the
\* purchase partly consumed, and one with the purchase as first argument
C1_Witness ==
    \E k, l \in DOMAIN log :
        /\ log[k].before[log[k].a] < 0
        /\ log[k].after[log[k].b] > 0
        /\ log[l].before[log[l].a] > 0
        /\ log[l].after[log[l].a] = 0
        /\ log[l].after[log[l].b] = 0

\* C2: every Daytrade held in positions['daytrades'] has a positive quantity,
\* a purchase leg of that quantity and a sale leg of minus that quantity, in
\* every state of a pass: after an insertion and after each merge.
C2_LegsMirrorQuantity ==
    \A s \in DOMAIN daytrades(positions) :
        LET d == daytrades(positions)[s]
        IN  /\ d.quantity > 0
            /\ d.operations[1].quantity = d.quantity
            /\ d.operations[2].quantity = -d.quantity

\* a state inside a pass in which a second Daytrade of a symbol has been
\* merged into the held one
C2_Witness ==
    /\ pc = "scan"
    /\ \E k \in Made : log[k].held # None /\ log[k].stored.quantity > log[k].held.quantity

----------------------------------------------------------------------------
(* Properties of the insertion and the merge *)

\* the sum of the quantities of the Daytrades of `symbol` among the first n
\* entries of the log
RECURSIVE MatchedSum(_, _)
MatchedSum(symbol, n) ==
    IF n = 0 THEN 0
    ELSE MatchedSum(symbol, n - 1)
            + (IF n \in Made /\ initial[log[n].a].symbol = symbol
               THEN log[n].daytrade.quantity ELSE 0)

\* C3: after fetch_daytrades, positions['daytrades'] holds one Daytrade for a
\* symbol exactly when a pair of that symbol matched, each stored object once,
\* and its quantity is the sum of the quantities of all matches of the symbol.
C3_OnePerSymbolSummed ==
    (pc = "idle" /\ passes >= 1) =>
        LET held == daytrades(positions)
        IN  /\ DOMAIN held = {initial[log[k].a].symbol : k \in DOMAIN log}
            /\ \A s \in DOMAIN held :
                /\ held[s].symbol = s
                /\ held[s].quantity = MatchedSum(s, Len(log))
            /\ \A s, t \in DOMAIN held : held[s].id = held[t].id => s = t

\* a finished pass over a batch of both symbols: one symbol holds a Daytrade
\* merged from two matches, the other matched nothing and holds none
C3_Witness ==
    /\ pc = "idle"
    /\ passes >= 1
    /\ {initial[k].symbol : k \in DOMAIN initial} = Symbols
    /\ Cardinality(DOMAIN daytrades(positions)) = 1
    /\ \E k, l \in Made :
        /\ k # l
        /\ initial[log[k].a].symbol = initial[log[l].a].symbol
        /\ daytrades(positions)[initial[log[k].a].symbol].quantity
                = log[k].daytrade.quantity + log[l].daytrade.quantity

\* price is the average of the prices of x and y weighted by their quantities
IsWeightedAverage(price, x, y) ==
    price.num * (x.price.den * y.price.den * (x.quantity + y.quantity))
        = price.den * (x.quantity * x.price.num * y.price.den
                        + y.quantity * y.price.num * x.price.den)

\* C4: appending a Daytrade when one of the same symbol is held updates the
\* held object in place: its quantity becomes the sum of the two, and each leg
\* gets the summed quantity and the quantity-weighted average price of the
\* two corresponding legs, the purchase legs and the sale legs separately.
C4_MergeInPlace ==
    \A k \in Made :
        LET old == log[k].held
            new == log[k].daytrade
            now == log[k].stored
        IN  old # None =>
                /\ now.id = old.id
                /\ now.symbol = old.symbol
                /\ now.date = old.date
                /\ now.quantity = old.quantity + new.quantity
                /\ \A leg \in {1, 2} :
                    /\ now.operations[leg].quantity
                            = old.operations[leg].quantity + new.operations[leg].quantity
                    /\ IsWeightedAverage(now.operations[leg].price,
                                         old.operations[leg], new.operations[leg])
                    /\ now.operations[leg].date = old.operations[leg].date

\* a merge of purchase legs of different prices and different quantities,
\* whose average is no whole number and differs from the merged sale price
C4_Witness ==
    \E k \in Made :
        /\ log[k].held # None
        /\ log[k].held.operations[1].price # log[k].daytrade.operations[1].price
        /\ log[k].held.operations[1].quantity # log[k].daytrade.operations[1].quantity
        /\ log[k].stored.operations[1].price.den # 1
        /\ log[k].stored.operations[2].price # log[k].stored.operations[1].price
        /\ daytrades(positions)[log[k].stored.symbol] = log[k].stored

\* C5: a fetch_daytrades call on a batch that has been matched already changes
\* no operation, creates no Daytrade and leaves positions as they are.
C5_SecondPassNoOp ==
    [][passes >= 1 =>
        /\ operations' = operations
        /\ positions' = positions
        /\ log' = log]_vars

\* a second call has returned on a batch that holds a Daytrade and operations
\* consumed partly, entirely and not at all
C5_Witness ==
    /\ passes = 2
    /\ pc = "idle"
    /\ log # <<>>
    /\ \E k \in DOMAIN operations :
        /\ operations[k].quantity # 0
        /\ operations[k].quantity # initial[k].quantity
    /\ \E k \in DOMAIN operations :
        initial[k].quantity # 0 /\ operations[k].quantity = 0

----------------------------------------------------------------------------
(* Properties of the scan *)

\* operations x and y of the batch are of one symbol, with non-zero quantities
\* qx and qy of opposite signs
Opposite(x, y, qx, qy) == initial[x].symbol = initial[y].symbol /\ qx * qy < 0

\* C6: matching is greedy from left to right.  When operation a is matched
\* with a later operation b, every operation between them of the same symbol
\* and of the opposite direction is exhausted already; and the scan has left
\* an operation behind only exhausted or with no later operation to match.
C6_GreedyLeftToRight ==
    /\ \A k \in DOMAIN log :
        LET m == log[k]
        IN  /\ m.a < m.b
            /\ \A x \in (m.a + 1)..(m.b - 1) :
                Opposite(m.a, x, initial[m.a].quantity, initial[x].quantity)
                    => m.before[x] = 0
    /\ pc = "scan" =>
        \A a \in 1..(i - 1) :
            \/ operations[a].quantity = 0
            \/ \A b \in (a + 1)..Len(operations) :
                ~Opposite(a, b, operations[a].quantity, operations[b].quantity)

\* a purchase of 100 consumed by the two sales of 50 that follow it, merged
\* into one Daytrade of 100, the scan having moved past the purchase
C6_Witness ==
    /\ pc = "scan"
    /\ i = 2
    /\ Len(initial) >= 3
    /\ initial[1].quantity = 100
    /\ initial[2].quantity = -50
    /\ initial[3].quantity = -50
    /\ Len(log) = 2
    /\ log[1].a = 1 /\ log[1].b = 2
    /\ log[2].a = 1 /\ log[2].b = 3
    /\ daytrades(positions)[initial[1].symbol].quantity = 100

\* C7: the results of a Daytrade are |sale leg quantity x sale leg price| -
\* |purchase leg quantity x purchase leg price|; for a Daytrade built from one
\* pair that is matched quantity x (sale price - purchase price), and the
\* batch [+100 @ 10, -100 @ 12] gives one Daytrade of 100 with results 200.
C7_Results ==
    /\ \A s \in DOMAIN daytrades(positions) :
        LET d == daytrades(positions)[s]
            p == d.operations[1]
            q == d.operations[2]
            r == results(d)
        IN  r.num * (p.price.den * q.price.den)
                = r.den * (Abs(q.quantity * q.price.num) * p.price.den
                            - Abs(p.quantity * p.price.num) * q.price.den)
    /\ \A k \in Made :
        LET m == log[k]
            qa == m.before[m.a]
            purchase == IF qa > 0 THEN m.a ELSE m.b
            sale == IF qa > 0 THEN m.b ELSE m.a
        IN  results(m.daytrade)
                = RatInt(m.daytrade.quantity
                            * (initial[sale].price.num - initial[purchase].price.num))
    /\ ( /\ passes >= 1
         /\ Len(initial) = 2
         /\ initial[1] = Operation(1, "A", 100, RatInt(10))
         /\ initial[2] = Operation(1, "A", -100, RatInt(12)) ) =>
            /\ DOMAIN daytrades(positions) = {"A"}
            /\ daytrades(positions)["A"].quantity = 100
            /\ results(daytrades(positions)["A"]) = RatInt(200)
            /\ Len(log) = 1

\* the batch [+100 @ 10, -100 @ 12] after fetch_daytrades
C7_Witness ==
    /\ passes >= 1
    /\ Len(initial) = 2
    /\ initial[1] = Operation(1, "A", 100, RatInt(10))
    /\ initial[2] = Operation(1, "A", -100, RatInt(12))
    /\ results(daytrades(positions)["A"]) = RatInt(200)

\* C8: every Daytrade made by fetch_daytrades pairs a purchase and a sale of
\* one date: the two source operations, and so the two legs, have the same
\* date.
C8_SameDate ==
    \A k \in Made :
        /\ initial[log[k].a].date = initial[log[k].b].date
        /\ log[k].daytrade.operations[1].date = log[k].daytrade.operations[2].date

\* C10: find_purchase_and_sale is only reached with a pair of one symbol with
\* non-zero quantities of opposite signs, never returns (None, None) to the
\* matcher, nothing raises, and no Daytrade of quantity 0 is created.
C10_GuardComplete ==
    /\ pc # "raised"
    /\ \A k \in DOMAIN log :
        LET m == log[k]
        IN  /\ Opposite(m.a, m.b, m.before[m.a], m.before[m.b])
            /\ m.pair # <<None, None>>
            /\ m.pair \in {<<Ref(m.a), Ref(m.b)>>, <<Ref(m.b), Ref(m.a)>>}
            /\ ~m.raised
            /\ m.daytrade # None
            /\ m.daytrade.quantity > 0

\* a finished pass that made one match, exhausting a purchase that was then
\* compared with a later sale of the same symbol, left untouched
C10_Witness ==
    /\ passes >= 1
    /\ Len(log) = 1
    /\ \E y, z \in DOMAIN initial :
        /\ log[1].a = y
        /\ log[1].b < z
        /\ initial[y].symbol = initial[z].symbol
        /\ initial[y].quantity > 0
        /\ operations[y].quantity = 0
        /\ initial[z].quantity < 0
        /\ operations[z].quantity = initial[z].quantity

----------------------------------------------------------------------------
(* Properties of Option.exercise *)

\* C9: exercise(q, p) returns two operations: one of quantity -|q| at price 0
\* that consumes the option, then one of quantity q at price p on the
\* underlying asset, whatever the kind of the option.
C9_ExerciseLegs ==
    ex_out # <<>> =>
        /\ Len(ex_out) = 2
        /\ ex_out[1] = [quantity |-> -Abs(ex_in.quantity), price |-> 0]
        /\ ex_out[2] = [quantity |-> ex_in.quantity, price |-> ex_in.price]

\* the exercise of -100 at 10 on a put: [(-100, 0), (-100, 10)]
C9_Witness ==
    /\ ex_in # None
    /\ ex_in.kind = "put"
    /\ ex_in.quantity = -100
    /\ ex_in.price = 10
    /\ ex_out = << [quantity |-> -100, price |-> 0], [quantity |-> -100, price |-> 10] >>

----------------------------------------------------------------------------
(* Properties of the purchase and sale assignment *)

\* C11: given two quantities of the same sign, find_purchase_and_sale fails
\* there and then: it hands no (None, None) on to the construction of the
\* Daytrade, the failure is its own, no quantity of the two operations is
\* changed and nothing is added to positions['daytrades'].
C11_ExplicitDefect ==
    \A k \in DOMAIN log :
        LET m == log[k]
        IN  same_sign(m.before[m.a], m.before[m.b]) =>
                /\ m.pair # <<None, None>>
                /\ m.failed = "find_purchase_and_sale"
                /\ m.after = m.before
                /\ daytrades(positions) = [s \in {} |-> None]

\* C12: of a qualifying pair, in either order in the batch, the operation of
\* positive quantity is the purchase and the other the sale: leg 0 of the new
\* Daytrade has the date and the price of the purchase, leg 1 those of the
\* sale, and both have the matched quantity.
C12_PurchaseAndSaleLegs ==
    \A k \in Made :
        LET m == log[k]
            p == IF m.before[m.a] > 0 THEN m.a ELSE m.b
            s == IF m.before[m.a] > 0 THEN m.b ELSE m.a
            matched == Min(Abs(m.before[m.a]), Abs(m.before[m.b]))
        IN  /\ m.before[p] > 0
            /\ m.before[s] < 0
            /\ m.pair = <<Ref(p), Ref(s)>>
            /\ m.daytrade.operations[1]
                    = Operation(initial[p].date, initial[p].symbol,
                                matched, initial[p].price)
            /\ m.daytrade.operations[2]
                    = Operation(initial[s].date, initial[s].symbol,
                                -matched, initial[s].price)

\* a sale of 150 followed by a purchase of 50 of another date and price: the
\* legs carry 50, the date and price of the second operation first
C12_Witness ==
    /\ Len(log) = 1
    /\ log[1].a = 1
    /\ log[1].b = 2
    /\ initial[1].quantity = -150
    /\ initial[2].quantity = 50
    /\ initial[1].date # initial[2].date
    /\ initial[1].price # initial[2].price
    /\ log[1].daytrade.operations[1].date = initial[2].date
    /\ log[1].daytrade.operations[1].price = initial[2].price
    /\ log[1].daytrade.operations[1].quantity = 50
    /\ log[1].daytrade.operations[2].quantity = -50

----------------------------------------------------------------------------
(* Properties of a whole pass *)

\* C13: no operation qualifies against itself, and the matcher whose inner
\* loop starts at i + 1 makes the same matches in the same order as
\* fetch_daytrades and ends with the same quantities and the same
\* positions['daytrades'].
C13_SkippingSelfEquivalent ==
    /\ \A k \in DOMAIN operations :
        ~daytrade_condition(operations[k], operations[k])
    /\ \A k \in DOMAIN log : log[k].a # log[k].b
    /\ (pc = "idle" /\ passes = 1) =>
        LET other == ScanSkippingSelf([operations |-> initial,
                                       positions |-> [c \in {} |-> None],
                                       matches |-> <<>>,
                                       raised |-> FALSE], 1, 2)
        IN  /\ ~other.raised
            /\ other.operations = operations
            /\ other.positions = positions
            /\ other.matches = [k \in DOMAIN log |-> <<log[k].a, log[k].b>>]

\* a finished pass that made three matches, merged into one Daytrade, on a
\* batch whose last operation is left partly consumed
C13_Witness ==
    /\ pc = "idle"
    /\ passes = 1
    /\ Len(log) = 3
    /\ operations[Len(operations)].quantity # 0
    /\ operations[Len(operations)].quantity # initial[Len(operations)].quantity

\* C14: a pass changes nothing but the quantities of the operations and
\* positions['daytrades']: the batch keeps its length and order, every
\* operation its date, symbol and price; each match changes the quantities of
\* its two operations and of no other, nothing else changes a quantity, and
\* the operations of a symbol without a pair of opposite signs stay as built.
C14_Frame ==
    /\ Len(operations) = Len(initial)
    /\ \A k \in DOMAIN operations :
        /\ operations[k].date = initial[k].date
        /\ operations[k].symbol = initial[k].symbol
        /\ operations[k].price = initial[k].price
        /\ (\A x \in DOMAIN initial :
                ~Opposite(k, x, initial[k].quantity, initial[x].quantity))
            => operations[k] = initial[k]
    /\ DOMAIN positions \subseteq {"daytrades"}
    /\ \A k \in DOMAIN log :
        LET m == log[k]
        IN  /\ DOMAIN m.after = DOMAIN initial
            /\ \A x \in DOMAIN initial :
                (m.after[x] # m.before[x]) <=> (x \in {m.a, m.b})
            /\ m.before = IF k = 1 THEN Quantity(initial) ELSE log[k - 1].after
    /\ log # <<>> => Quantity(operations) = log[Len(log)].after

\* a finished pass over a batch of both symbols that matched two operations
\* of one symbol and left a third of that symbol and the other symbol alone
C14_Witness ==
    /\ pc = "idle"
    /\ passes >= 1
    /\ Len(initial) = 4
    /\ Len(log) = 1
    /\ \E x, y \in DOMAIN initial :
        /\ x \notin {log[1].a, log[1].b}
        /\ y \notin {log[1].a, log[1].b}
        /\ initial[x].symbol = initial[log[1].a].symbol
        /\ initial[y].symbol # initial[log[1].a].symbol
        /\ operations[x] = initial[x]
        /\ operations[y] = initial[y]

\* C15: during a pass the quantity of every operation moves toward zero and
\* never past it: a purchase stays between 0 and its first quantity, a sale
\* between its first quantity and 0, no match moves a quantity away from
\* zero, and an operation of quantity 0 takes part in no match.
C15_TowardZero ==
    /\ \A k \in DOMAIN operations :
        /\ initial[k].quantity >= 0 =>
            (0 <= operations[k].quantity /\ operations[k].quantity <= initial[k].quantity)
        /\ initial[k].quantity <= 0 =>
            (initial[k].quantity <= operations[k].quantity /\ operations[k].quantity <= 0)
    /\ \A k \in DOMAIN log :
        LET m == log[k]
        IN  \A x \in DOMAIN m.before :
                /\ m.before[x] >= 0 => (0 <= m.after[x] /\ m.after[x] <= m.before[x])
                /\ m.before[x] <= 0 => (m.before[x] <= m.after[x] /\ m.after[x] <= 0)
                /\ m.before[x] = 0 => x \notin {m.a, m.b}

\* a purchase exhausted by a first match and then compared with a later sale
\* that a second match, with another purchase, consumes in part
C15_Witness ==
    /\ Len(log) = 2
    /\ log[1].a = 1
    /\ log[1].after[1] = 0
    /\ initial[1].quantity > 0
    /\ log[2].a > 1
    /\ \E z \in DOMAIN initial :
        /\ z > log[1].b
        /\ initial[z].symbol = initial[1].symbol
        /\ initial[z].quantity < operations[z].quantity
        /\ operations[z].quantity < 0

RECURSIVE SignedSum(_, _, _)
SignedSum(ops, symbol, n) ==
    IF n = 0 THEN 0
    ELSE SignedSum(ops, symbol, n - 1)
            + (IF ops[n].symbol = symbol THEN ops[n].quantity ELSE 0)

RECURSIVE AbsSum(_, _, _)
AbsSum(ops, symbol, n) ==
    IF n = 0 THEN 0
    ELSE AbsSum(ops, symbol, n - 1)
            + (IF ops[n].symbol = symbol THEN Abs(ops[n].quantity) ELSE 0)

\* the purchases and the sales of a symbol in a batch, as magnitudes
Bought(ops, symbol) == (AbsSum(ops, symbol, Len(ops)) + SignedSum(ops, symbol, Len(ops))) \div 2

Sold(ops, symbol) == (AbsSum(ops, symbol, Len(ops)) - SignedSum(ops, symbol, Len(ops))) \div 2

\* the quantity of the Daytrade held for a symbol, 0 when there is none
DaytradeQuantity(symbol) ==
    IF symbol \in DOMAIN daytrades(positions)
    THEN daytrades(positions)[symbol].quantity ELSE 0

\* C16: after a pass no pair qualifies any more: of each symbol, the
\* operations left with a quantity all have the same sign, and the Daytrade
\* of the symbol has the quantity min(purchases, sales) of the batch as built.
C16_NothingLeftToMatch ==
    (pc = "idle" /\ passes >= 1) =>
        /\ \A x, y \in DOMAIN operations :
            /\ ~daytrade_condition(operations[x], operations[y])
            /\ operations[x].symbol = operations[y].symbol
                => operations[x].quantity * operations[y].quantity >= 0
        /\ \A s \in Symbols :
            DaytradeQuantity(s) = Min(Bought(initial, s), Sold(initial, s))

\* a batch that starts with its sales, of which the purchases that follow
\* cover only a part: three matches, a Daytrade of the purchases' total
C16_Witness ==
    /\ pc = "idle"
    /\ passes >= 1
    /\ Len(log) = 3
    /\ initial[1].quantity < 0
    /\ \E s \in Symbols :
        /\ Bought(initial, s) = 150
        /\ Sold(initial, s) = 200
        /\ DaytradeQuantity(s) = 150
        /\ Sold(operations, s) = 50
        /\ Bought(operations, s) = 0

\* C17: matching conserves quantity.  In every state of a pass, of each
\* symbol, the signed quantities of the operations add up to what they did at
\* first, and their absolute quantities plus twice the quantity of the
\* symbol's Daytrade add up to the absolute quantities at first.
C17_Conservation ==
    \A s \in Symbols :
        /\ SignedSum(operations, s, Len(operations)) = SignedSum(initial, s, Len(initial))
        /\ AbsSum(operations, s, Len(operations)) + 2 * DaytradeQuantity(s)
                = AbsSum(initial, s, Len(initial))

\* a state inside a pass, after a merge, with operations of the symbol still
\* to be matched
C17_Witness ==
    /\ pc = "scan"
    /\ Len(log) = 2
    /\ \E s \in Symbols :
        /\ DaytradeQuantity(s) = 100
        /\ Bought(operations, s) > 0
        /\ Sold(operations, s) > 0

\* the absolute values (quantity x price) of leg `leg` of the Daytrades built
\* for `symbol` among the first n entries of the log, added up; these values
\* and the results of a Daytrade built from one pair are whole numbers
RECURSIVE LegValueSum(_, _, _)
LegValueSum(symbol, leg, n) ==
    IF n = 0 THEN 0
    ELSE LegValueSum(symbol, leg, n - 1)
            + (IF n \in Made /\ initial[log[n].a].symbol = symbol
               THEN Abs(log[n].daytrade.operations[leg].quantity
                            * initial[log[n].pair[leg].at].price.num)
               ELSE 0)

RECURSIVE ResultsSum(_, _)
ResultsSum(symbol, n) ==
    IF n = 0 THEN 0
    ELSE ResultsSum(symbol, n - 1)
            + (IF n \in Made /\ initial[log[n].a].symbol = symbol
               THEN results(log[n].daytrade).num ELSE 0)

\* C18: merging preserves the realized result.  The absolute value of each
\* leg of a held Daytrade is the sum, over the matches of its symbol, of
\* matched quantity x price of that side, and its results are the sum of the
\* results of the Daytrades of those matches.
C18_MergePreservesResults ==
    /\ \A k \in Made : results(log[k].daytrade).den = 1
    /\ \A s \in DOMAIN daytrades(positions) :
        LET d == daytrades(positions)[s]
        IN  /\ \A leg \in {1, 2} :
                RatAbs(real_value(d.operations[leg]))
                    = RatInt(LegValueSum(s, leg, Len(log)))
            /\ results(d) = RatInt(ResultsSum(s, Len(log)))

\* a Daytrade merged from three matches, of which one made a profit and one
\* a loss, with leg prices that are no whole numbers
C18_Witness ==
    /\ Len(log) = 3
    /\ \E s \in DOMAIN daytrades(positions) :
        /\ daytrades(positions)[s].quantity = 150
        /\ daytrades(positions)[s].operations[1].price.den # 1
        /\ daytrades(positions)[s].operations[2].price.den # 1
        /\ ResultsSum(s, 3) = results(daytrades(positions)[s]).num
    /\ \E k, l \in Made :
        /\ results(log[k].daytrade).num > 0
        /\ results(log[l].daytrade).num < 0

----------------------------------------------------------------------------
(* Properties of two passes at once *)

\* the quantity of operation k has changed sign
Crossed(k) == initial[k].quantity * operations[k].quantity < 0

\* more is recorded as daytraded for the symbol than the batch could match
Exceeds(symbol) ==
    DaytradeQuantity(symbol) > Min(Bought(initial, symbol), Sold(initial, symbol))

\* C19: the matcher is right only when one pass runs alone to its end.  With
\* two passes interleaved, a quantity changes sign or a Daytrade exceeds what
\* could be matched only where both passes have written: an operation changes
\* sign only after both passes updated it, and a symbol's Daytrade exceeds the
\* available quantity only after both passes updated operations of the symbol.
\* The state itself, which no pass alone reaches, is the witness.
C19_OnlyInterleavingBreaks ==
    /\ \A k \in DOMAIN operations :
        Crossed(k) => \A t \in Threads : k \in threads[t].wrote
    /\ \A s \in Symbols :
        Exceeds(s) =>
            \A t \in Threads : \E k \in threads[t].wrote : initial[k].symbol = s

\* both passes have returned, leaving a purchase negative and a sale positive
\* and a Daytrade of more than the batch could match
C19_Witness ==
    /\ \A t \in Threads : threads[t].pc = "done"
    /\ \E k, l \in DOMAIN operations :
        /\ initial[k].quantity > 0
        /\ operations[k].quantity < 0
        /\ initial[l].quantity < 0
        /\ operations[l].quantity > 0
    /\ \E s \in Symbols : Exceeds(s)

====
